---- MODULE Spec2Model ----
(***************************************************************************)
(* Model of the Docker event watcher of serversinc/agent                   *)
(* (src/src/services/Watcher.ts) and of the collaborators it calls         *)
(* (src/src/services/Http.ts).                                             *)
(*                                                                         *)
(* The watcher is a single object driven by Node's event loop.  Every      *)
(* action below is one callback run to completion: a call of the public    *)
(* API, a timer firing, a child-process 'exit' or 'error' callback, a      *)
(* stdout 'data' callback, or the resumption of an awaited promise.        *)
(*                                                                         *)
(* Timers carry their delay in milliseconds.  The model keeps no clock:    *)
(* callbacks run at any moment, so only the order in which timers fire     *)
(* matters.  An armed timer never fires before a timer that was armed      *)
(* earlier (or in the same callback) with an equal or shorter delay; a     *)
(* timer armed later with a shorter delay may overtake.                    *)
(***************************************************************************)
EXTENDS Integers, Sequences, FiniteSets, TLC

\* ---------------------------------------------------------------- bounds

\* Calls of the public API (start/stop/restart/shutdown) in one run.
MaxCalls == 3
\* Spontaneous failures in one run: a subprocess exiting without having been
\* signalled, spawn() throwing, spawn failing asynchronously, kill() failing.
\* A run with one API call may contain that many; every further API call
\* takes two of them (see Budget).
MaxFailures == 5

\* Bytes the subprocess writes in one run, and bytes of one stdout chunk.
MaxStream == 5
MaxChunk == 4
\* Lines the subprocess writes in one run where each line is one document.
MaxLines == 2
\* Events on the Docker host in one run of the supervisor.
MaxHostEvents == 1
\* The buffer ceiling (maxBufferSize, 1024 * 1024 in the source) and the length
\* of the excerpt of an undecodable line that is logged (200 in the source),
\* scaled down so that streams of MaxStream bytes exceed them.
maxBufferSize == 4
excerptLen == 1
\* Characters of an image reference; entries of a container's environment.
MaxRef == 7
MaxEnv == 2
\* Characters of the message of an error a runtime call fails with.
MaxMessage == 3

\* ------------------------------------------------------ program constants

initialRetryDelay == 5000
maxRetryDelay == 60000
\* setTimeout(..., 5000) in stop(): the grace period before SIGKILL.
forceKillDelay == 5000
\* setTimeout(..., 1000) in restart().
restartDelay == 1000

\* ------------------------------------------------------------------ state

VARIABLES
  state,           \* WatcherService.state
  spawnedProcess,  \* WatcherService.spawnedProcess: a pid, or 0 for null
  retryCount,      \* WatcherService.retryCount
  buffer,          \* WatcherService.buffer: a sequence of characters
  procs,           \* every subprocess spawned so far, by pid
  timers,          \* armed setTimeout callbacks, in the order they can fire in
  scheduled,       \* history: calls of scheduleRestart() so far
  log,             \* the watcher's warn() and error() calls, in order
  tasks,           \* the handleEvent() continuations started, in order
  sent,            \* the payloads handed to httpService.postSafe, in order
  unhandled,       \* promise rejections no handler absorbed, so far
  host,            \* events that have happened on the Docker host so far
  decoded,         \* history: the lines handed to JSON.parse, in order
  stream,          \* history: the bytes delivered on stdout so far
  text,            \* history: the characters appended to the buffer so far
  calls,           \* history: API calls made so far
  failures,        \* history: spontaneous failures so far
  lastStop,        \* history: the pid the previous callback, a stop(), signalled
  raced,           \* history: a stop() directly followed by start(): the old pid
  afterShutdown,   \* history: shutdown() was the last API call; spawns since then
  probe            \* a call of enrich() or postSafe() on its own: argument, result

vars == <<state, spawnedProcess, retryCount, buffer, procs, timers,
          scheduled, log, tasks, sent, unhandled, host, decoded, stream, text,
          calls,
          failures, lastStop, raced, afterShutdown, probe>>

Min(a, b) == IF a <= b THEN a ELSE b

\* The watcher and its environment as one record, so that a handler that calls
\* another handler is a composition of operators.
\* batch counts the timers the running callback has armed so far: they are the
\* last ones of timers.
Cur ==
  [state |-> state, spawnedProcess |-> spawnedProcess, retryCount |-> retryCount,
   buffer |-> buffer, procs |-> procs, timers |-> timers,
   scheduled |-> scheduled, log |-> log, tasks |-> tasks, sent |-> sent,
   unhandled |-> unhandled, host |-> host, decoded |-> decoded,
   probe |-> probe, batch |-> 0]

\* setTimeout(callback, t.delay).  Timers are kept in the order they can fire
\* in: the order of arming, except that among the timers armed by one
\* callback a shorter delay comes first.
setTimeout(w, t) ==
  LET n == Len(w.timers)
      first == n - w.batch + 1
      later == {i \in first..n : w.timers[i].delay > t.delay}
      at == IF later = {} THEN n + 1
            ELSE CHOOSE i \in later : \A j \in later : i <= j
  IN [w EXCEPT !.timers = SubSeq(@, 1, at - 1) \o <<t>> \o SubSeq(@, at, n),
               !.batch = @ + 1]

Set(w) ==
  /\ state' = w.state
  /\ spawnedProcess' = w.spawnedProcess
  /\ retryCount' = w.retryCount
  /\ buffer' = w.buffer
  /\ procs' = w.procs
  /\ timers' = w.timers
  /\ scheduled' = w.scheduled
  /\ log' = w.log
  /\ tasks' = w.tasks
  /\ sent' = w.sent
  /\ unhandled' = w.unhandled
  /\ host' = w.host
  /\ decoded' = w.decoded
  /\ probe' = w.probe

\* A subprocess.  alive: the OS process exists (spawned, 'exit' not yet
\* delivered).  spawnErr: spawn failed asynchronously, 'error' is pending.
\* sigterm/sigkill: signals the watcher delivered to it.  The other fields
\* are history: errFired/exitFired (callbacks delivered), restarts (calls of
\* scheduleRestart made by its callbacks), gen (position in a chain of
\* restarts, see onExit), graceExpired (the grace timer of the stop() that
\* signalled it fired while it was alive).  written is the bytes it has
\* written to its stdout, read how many of them the 'data' callback received.
NewProc(ok, gen) ==
  [alive |-> ok, spawnErr |-> ~ok, sigterm |-> 0, sigkill |-> 0,
   errFired |-> FALSE, exitFired |-> FALSE, restarts |-> 0, gen |-> gen,
   graceExpired |-> FALSE, written |-> <<>>, read |-> 0]

SpawnOutcomes == {"ok", "asyncfail", "throw"}
KillOutcomes == {"ok", "eperm"}

\* ------------------------------------------------------------- supervisor

backoffDelay_NoCeiling(r) == initialRetryDelay * (2 ^ r)

\* Math.min(initialRetryDelay * Math.pow(2, retryCount), maxRetryDelay)
backoffDelay(r) == Min(initialRetryDelay * (2 ^ r), maxRetryDelay)

\* scheduleRestart().  The timer's id, r and n are history: the number of this
\* call, retryCount before it, and the position of this restart in a chain of
\* unplanned exits (0 when it is not part of one).
scheduleRestart(w, n) ==
  LET delay == backoffDelay(w.retryCount)
  IN setTimeout([w EXCEPT !.retryCount = @ + 1, !.scheduled = @ + 1],
                [kind |-> "restart", delay |-> delay, of |-> 0,
                 id |-> w.scheduled + 1, r |-> w.retryCount, n |-> n])

start_NoGuard(w, outcome, gen) ==
  IF outcome = "throw"
    THEN scheduleRestart([w EXCEPT !.state = "stopped"], 0)
    ELSE [w EXCEPT !.procs = Append(@, NewProc(outcome = "ok", gen)),
                   !.spawnedProcess = Len(w.procs) + 1,
                   !.state = "running",
                   !.retryCount = 0]

\* start().  outcome is what spawn() does; gen is history.
start(w, outcome, gen) ==
  IF w.state \in {"running", "starting"} THEN w
  ELSE IF outcome = "throw"
    THEN scheduleRestart([w EXCEPT !.state = "stopped"], 0)
    ELSE [w EXCEPT !.procs = Append(@, NewProc(outcome = "ok", gen)),
                   !.spawnedProcess = Len(w.procs) + 1,
                   !.state = "running",
                   !.retryCount = 0]

\* The 'error' handler start() attaches to subprocess p.
onError(w, p) ==
  scheduleRestart(
    [w EXCEPT !.state = "stopped",
              !.procs[p].errFired = TRUE,
              !.procs[p].restarts = @ + 1], 0)

onExit_NoRestart(w, p) ==
  [w EXCEPT !.spawnedProcess = 0,
            !.state = "stopped",
            !.procs[p].alive = FALSE,
            !.procs[p].exitFired = TRUE]

\* The 'exit' handler start() attaches to subprocess p.  An exit is unplanned
\* when the watcher never signalled p; the restart it schedules is then the
\* next one of p's chain.
onExit(w, p) ==
  LET unplanned == /\ w.procs[p].sigterm = 0 /\ w.procs[p].sigkill = 0
                   /\ ~w.procs[p].errFired
  IN scheduleRestart(
       [w EXCEPT !.spawnedProcess = 0,
                 !.state = "stopped",
                 !.procs[p].alive = FALSE,
                 !.procs[p].exitFired = TRUE,
                 !.procs[p].restarts = @ + 1],
       IF unplanned THEN w.procs[p].gen + 1 ELSE 0)

\* ChildProcess.kill(sig) on subprocess p: nothing when the process is gone,
\* the signal is delivered, or (EPERM) 'error' is emitted synchronously.
kill(w, p, sig, outcome) ==
  IF ~w.procs[p].alive THEN w
  ELSE IF outcome = "eperm" THEN onError(w, p)
  ELSE IF sig = "SIGTERM" THEN [w EXCEPT !.procs[p].sigterm = @ + 1]
  ELSE [w EXCEPT !.procs[p].sigkill = @ + 1]

stop_NoGuard(w, outcome) ==
  LET w1 == [w EXCEPT !.state = "stopping"]
  IN IF w1.spawnedProcess # 0
       THEN LET w2 == kill(w1, w1.spawnedProcess, "SIGTERM", outcome)
                w3 == setTimeout(w2, [kind |-> "forceKill",
                                      delay |-> forceKillDelay,
                                      of |-> w1.spawnedProcess,
                                      id |-> 0, r |-> 0, n |-> 0])
            IN [w3 EXCEPT !.spawnedProcess = 0,
                          !.buffer = <<>>,
                          !.state = "stopped"]
       ELSE [w1 EXCEPT !.buffer = <<>>, !.state = "stopped"]

stop_KeepsBuffer(w, outcome) ==
  IF w.state \in {"stopped", "stopping"} THEN w
  ELSE
    LET w1 == [w EXCEPT !.state = "stopping"]
    IN IF w1.spawnedProcess # 0
         THEN LET w2 == kill(w1, w1.spawnedProcess, "SIGTERM", outcome)
                  w3 == setTimeout(w2, [kind |-> "forceKill",
                                        delay |-> forceKillDelay,
                                        of |-> w1.spawnedProcess,
                                        id |-> 0, r |-> 0, n |-> 0])
              IN [w3 EXCEPT !.spawnedProcess = 0,
                            !.state = "stopped"]
         ELSE [w1 EXCEPT !.state = "stopped"]

\* stop()
stop(w, outcome) ==
  IF w.state \in {"stopped", "stopping"} THEN w
  ELSE
    LET w1 == [w EXCEPT !.state = "stopping"]
    IN IF w1.spawnedProcess # 0
         THEN LET w2 == kill(w1, w1.spawnedProcess, "SIGTERM", outcome)
                  w3 == setTimeout(w2, [kind |-> "forceKill",
                                        delay |-> forceKillDelay,
                                        of |-> w1.spawnedProcess,
                                        id |-> 0, r |-> 0, n |-> 0])
              IN [w3 EXCEPT !.spawnedProcess = 0,
                            !.buffer = <<>>,
                            !.state = "stopped"]
         ELSE [w1 EXCEPT !.buffer = <<>>, !.state = "stopped"]

restart_NoStop(w, outcome) ==
  setTimeout(w, [kind |-> "start", delay |-> restartDelay, of |-> 0,
                 id |-> 0, r |-> 0, n |-> 0])

\* restart()
restart(w, outcome) ==
  setTimeout(stop(w, outcome),
             [kind |-> "start", delay |-> restartDelay, of |-> 0,
              id |-> 0, r |-> 0, n |-> 0])

\* shutdown()
shutdown(w, outcome) == stop(w, outcome)

\* The callback stop() arms: it reads this.spawnedProcess when it fires.
forceKill(w, outcome) ==
  IF w.spawnedProcess # 0
    THEN kill(w, w.spawnedProcess, "SIGKILL", outcome)
    ELSE w

\* ------------------------------------------------------------ line parser

\* Bytes on stdout.  LF and CR are themselves; C3 A9 is the two-byte UTF-8
\* encoding of U+00E9; every other symbol stands for the text of one JSON
\* document (see Event).  Characters of the buffer are the same symbols, with
\* E9 for U+00E9 and FFFD for the replacement character.
LF == "LF"
CR == "CR"
Whitespace == {CR}

\* The texts JSON.parse accepts: event records (D, C, S, K, I) and documents
\* that are no event record (N, V, T, A).
Documents == {"D", "C", "S", "K", "I", "N", "V", "T", "A"}

Record(type, action, has) ==
  [json |-> "object", has |-> has, Type |-> type, Action |-> action,
   ID |-> IF "Actor" \in has THEN "k1" ELSE "undefined",
   Attributes |-> IF "Actor" \in has THEN "raw" ELSE "undefined"]

\* What JSON.parse returns for each document (cast to DockerEvent unchecked).
\* json is the kind of value; has names the properties an object has; a
\* property that is absent, and every property of a scalar, reads as
\* "undefined"; reading a property of null throws a TypeError.
Event(doc) ==
  CASE doc = "D" -> Record("container", "die", {"Type", "Action", "Actor"})
    [] doc = "C" -> Record("container", "create", {"Type", "Action", "Actor"})
    [] doc = "S" -> Record("container", "stop", {"Type", "Action", "Actor"})
    [] doc = "K" -> Record("container", "kill", {"Type", "Action", "Actor"})
    [] doc = "I" -> Record("image", "pull", {"Type", "Action", "Actor"})
    [] doc = "T" -> Record("undefined", "start", {"Action", "Actor"})
    [] doc = "A" -> Record("container", "start", {"Type", "Action"})
    [] doc = "V" -> [json |-> "scalar", has |-> {}, Type |-> "undefined",
                     Action |-> "undefined", ID |-> "undefined",
                     Attributes |-> "undefined"]
    [] doc = "N" -> [json |-> "null", has |-> {}, Type |-> "undefined",
                     Action |-> "undefined", ID |-> "undefined",
                     Attributes |-> "undefined"]

\* Buffer.toString() of one chunk: UTF-8 decoding of that chunk alone.  A lead
\* byte without its continuation byte in the chunk, and a continuation byte
\* without a lead byte, each decode to U+FFFD.
RECURSIVE toString(_)
toString(chunk) ==
  IF chunk = <<>> THEN <<>>
  ELSE IF chunk[1] = "C3"
    THEN IF Len(chunk) >= 2 /\ chunk[2] = "A9"
           THEN <<"E9">> \o toString(SubSeq(chunk, 3, Len(chunk)))
           ELSE <<"FFFD">> \o toString(Tail(chunk))
  ELSE IF chunk[1] = "A9" THEN <<"FFFD">> \o toString(Tail(chunk))
  ELSE <<chunk[1]>> \o toString(Tail(chunk))

\* String.prototype.indexOf: the first position of c, 1-based; 0 when absent.
indexOf(str, c) ==
  IF \E i \in 1..Len(str) : str[i] = c
    THEN CHOOSE i \in 1..Len(str) :
           str[i] = c /\ \A j \in 1..(i - 1) : str[j] # c
    ELSE 0

\* String.prototype.trim: whitespace removed at both ends.
trim(str) ==
  LET keep == {i \in 1..Len(str) : str[i] \notin Whitespace}
  IN IF keep = {} THEN <<>>
     ELSE SubSeq(str, CHOOSE i \in keep : \A j \in keep : i <= j,
                      CHOOSE i \in keep : \A j \in keep : i >= j)

\* String.prototype.substring(0, n)
substring(str, n) == SubSeq(str, 1, Min(n, Len(str)))

\* String.prototype.slice(-n) for n >= 0 (a fraction is cut towards zero).
sliceLast(str, n) ==
  IF n = 0 THEN str
  ELSE SubSeq(str, Len(str) - Min(n, Len(str)) + 1, Len(str))

\* JSON.parse succeeds exactly on one document.
parses(line) == Len(line) = 1 /\ line[1] \in Documents

shouldForward_SkipsStopOnly(event) ==
  IF event.Type # "container" THEN FALSE
  ELSE IF event.Action \in {"stop"} THEN FALSE
  ELSE TRUE

\* shouldForward()
shouldForward(event) ==
  IF event.Type # "container" THEN FALSE
  ELSE IF event.Action \in {"stop", "kill"} THEN FALSE
  ELSE TRUE

\* An entry of the log: warn() and error() calls with their data.
Entry(level, message, raw, action, id) ==
  [level |-> level, message |-> message, raw |-> raw, action |-> action,
   id |-> id]

\* A handleEvent() continuation.  pc: "inspect" (awaiting getContainer),
\* "post" (awaiting postSafe), "done" (returned), "rejected" (threw: the
\* promise is rejected and its catch callback is queued), "caught" (the
\* catch callback logged it), "unhandled" (the catch callback threw).
\* attributes is payload.attributes.  The rest is history: lookup is what
\* became of its getContainer call ("none" when it made none), sends counts
\* its calls of postSafe, success is what postSafe answered, during is the
\* watcher's state when handleEvent() was called.
Task(w, event, pc) ==
  [event |-> event, pc |-> pc, attributes |-> event.Attributes,
   lookup |-> IF pc = "inspect" THEN "pending" ELSE "none",
   sends |-> 0, success |-> "none", during |-> w.state]

\* handleEvent() calls postSafe with the payload of task k (the payload's
\* task, and the watcher's state during the call, are history).
postSafe(w, k) ==
  LET t == w.tasks[k]
  IN [w EXCEPT !.sent = Append(@, [event |-> t.event.Action,
                                   type |-> t.event.Type,
                                   id |-> t.event.ID,
                                   attributes |-> t.attributes,
                                   task |-> k,
                                   during |-> w.state]),
               !.tasks[k].sends = @ + 1,
               !.tasks[k].pc = "post"]

handleEvent_AwaitsPost(w, event) ==
  IF event.json = "null"
    THEN [w EXCEPT !.tasks = Append(@, Task(w, event, "rejected"))]
  ELSE IF ~shouldForward(event)
    THEN [w EXCEPT !.tasks = Append(@, Task(w, event, "done"))]
  ELSE IF "Actor" \notin event.has
    THEN [w EXCEPT !.tasks = Append(@, Task(w, event, "rejected"))]
    ELSE LET w1 == postSafe([w EXCEPT !.tasks = Append(@, Task(w, event, "post"))],
                            Len(w.tasks) + 1)
         IN [w1 EXCEPT !.tasks[Len(w.tasks) + 1].pc = "done",
                       !.tasks[Len(w.tasks) + 1].success = "true"]

handleEvent_LooksUpNone(w, event) ==
  IF event.json = "null"
    THEN [w EXCEPT !.tasks = Append(@, Task(w, event, "rejected"))]
  ELSE IF ~shouldForward(event)
    THEN [w EXCEPT !.tasks = Append(@, Task(w, event, "done"))]
  ELSE IF "Actor" \notin event.has
    THEN [w EXCEPT !.tasks = Append(@, Task(w, event, "rejected"))]
    ELSE postSafe([w EXCEPT !.tasks = Append(@, Task(w, event, "post"))],
                  Len(w.tasks) + 1)

handleEvent_LooksUpAll(w, event) ==
  IF event.json = "null"
    THEN [w EXCEPT !.tasks = Append(@, Task(w, event, "rejected"))]
  ELSE IF ~shouldForward(event)
    THEN [w EXCEPT !.tasks = Append(@, Task(w, event, "done"))]
  ELSE IF "Actor" \notin event.has
    THEN [w EXCEPT !.tasks = Append(@, Task(w, event, "rejected"))]
    ELSE [w EXCEPT !.tasks = Append(@, Task(w, event, "inspect"))]

\* handleEvent(), up to its first await.  Reading event.Type of null and
\* event.Actor.ID of an object without Actor throw; a forwarded event that
\* needs no enrichment reaches the call of postSafe at once.
handleEvent(w, event) ==
  IF event.json = "null"
    THEN [w EXCEPT !.tasks = Append(@, Task(w, event, "rejected"))]
  ELSE IF ~shouldForward(event)
    THEN [w EXCEPT !.tasks = Append(@, Task(w, event, "done"))]
  ELSE IF "Actor" \notin event.has
    THEN [w EXCEPT !.tasks = Append(@, Task(w, event, "rejected"))]
  ELSE IF event.Action = "create" /\ event.Type = "container"
    THEN [w EXCEPT !.tasks = Append(@, Task(w, event, "inspect"))]
    ELSE postSafe([w EXCEPT !.tasks = Append(@, Task(w, event, "post"))],
                  Len(w.tasks) + 1)

\* The callback handleChunk() passes to catch(), for the rejected task k: it
\* reads err.message and event.Action, which throws when event is null.
onRejected(w, k) ==
  IF w.tasks[k].event.json = "null"
    THEN [w EXCEPT !.tasks[k].pc = "unhandled", !.unhandled = @ + 1]
    ELSE [w EXCEPT !.tasks[k].pc = "caught",
                   !.log = Append(@, Entry("error", "Error handling event",
                                           <<>>, w.tasks[k].event.Action, ""))]

\* The microtasks queued by one callback run when it returns, before any
\* other callback: the catch callbacks of the promises rejected so far.
RECURSIVE runMicrotasks(_)
runMicrotasks(w) ==
  LET rejected == {k \in 1..Len(w.tasks) : w.tasks[k].pc = "rejected"}
  IN IF rejected = {} THEN w
     ELSE runMicrotasks(
            onRejected(w, CHOOSE k \in rejected : \A j \in rejected : k <= j))

\* ---------------------------------------------------------- enrichment

\* A string is a sequence of symbols: a character, or one of the three names
\* CORE_APP_ID, CORE_ENV_ID and CORE_DEPLOYMENT_ID as a whole.  Latest is the
\* string "latest" and Null the value null, which is no string.
Latest == <<"latest">>
Null == <<"null">>

\* String.prototype.lastIndexOf: the last position of c, 1-based; 0 when
\* absent.
lastIndexOf(str, c) ==
  IF \E i \in 1..Len(str) : str[i] = c
    THEN CHOOSE i \in 1..Len(str) :
           str[i] = c /\ \A j \in (i + 1)..Len(str) : str[j] # c
    ELSE 0

parseImageTag_LastSlash(imageName) ==
  LET lastColon == lastIndexOf(imageName, ":")
  IN IF lastColon = 0 \/ lastIndexOf(imageName, "/") > lastColon
       THEN [image |-> imageName, tag |-> Latest]
       ELSE LET tag == SubSeq(imageName, lastColon + 1, Len(imageName))
            IN [image |-> SubSeq(imageName, 1, lastColon - 1),
                tag |-> IF tag = <<>> THEN Latest ELSE tag]

\* parseImageTag()
parseImageTag(imageName) ==
  LET lastColon == lastIndexOf(imageName, ":")
  IN IF lastColon = 0 \/ indexOf(imageName, "/") > lastColon
       THEN [image |-> imageName, tag |-> Latest]
       ELSE LET tag == SubSeq(imageName, lastColon + 1, Len(imageName))
            IN [image |-> SubSeq(imageName, 1, lastColon - 1),
                tag |-> IF tag = <<>> THEN Latest ELSE tag]

\* const [key, ...rest] = entry.split("="); [key, rest.join("=")]
splitEntry(entry) ==
  LET at == indexOf(entry, "=")
  IN IF at = 0 THEN [key |-> entry, value |-> <<>>]
     ELSE [key |-> SubSeq(entry, 1, at - 1),
           value |-> SubSeq(entry, at + 1, Len(entry))]

\* new Map(pairs).get(key) ?? null: of two pairs with one key the later one
\* stays.
envGet_First(pairs, key) ==
  LET with == {i \in 1..Len(pairs) : pairs[i].key = key}
  IN IF with = {} THEN Null
     ELSE pairs[CHOOSE i \in with : \A j \in with : i <= j].value

envGet(pairs, key) ==
  LET with == {i \in 1..Len(pairs) : pairs[i].key = key}
  IN IF with = {} THEN Null
     ELSE pairs[CHOOSE i \in with : \A j \in with : i >= j].value

\* getDetailsFromEnv().  inspect.has names what the answer's Config has.
getDetailsFromEnv(inspect) ==
  LET env == IF "Env" \in inspect.has THEN inspect.Env ELSE <<>>
      envMap == [i \in 1..Len(env) |-> splitEntry(env[i])]
  IN [application_id |-> envGet(envMap, <<"CORE_APP_ID">>),
      environment_id |-> envGet(envMap, <<"CORE_ENV_ID">>),
      deployment_id |-> envGet(envMap, <<"CORE_DEPLOYMENT_ID">>)]

\* The attributes handleEvent() builds from the inspector's answer (id, name,
\* state and created are copies of the answer's fields and left out).
enrich(inspect) ==
  LET environment == getDetailsFromEnv(inspect)
      imageTag == parseImageTag(inspect.Image)
  IN [image |-> imageTag.image,
      tag |-> imageTag.tag,
      application_id |-> environment.application_id,
      environment_id |-> environment.environment_id,
      deployment_id |-> environment.deployment_id]

\* ------------------------------------------------------------ the sink

InspectOutcomes == {"ok", "rejects", "incomplete"}

\* What a request does: the sink answers with a success status and a JSON
\* body ("ok"), with a success status and a body response.json() rejects
\* ("body"), with another status ("status"), or fetch() rejects - aborted by
\* the timeout ("timeout") or for another reason ("network").
PostOutcomes == {"ok", "body", "timeout", "network", "status"}

httpPost_IgnoresBody(outcome) ==
  IF outcome \in {"timeout", "network"} THEN "throws"
  ELSE IF outcome = "status" THEN "throws"
  ELSE "returns"

\* HttpService.post(): every exception of the try block is rethrown by the
\* catch block.
httpPost(outcome) ==
  IF outcome \in {"timeout", "network"} THEN "throws"
  ELSE IF outcome = "status" THEN "throws"
  ELSE IF outcome = "body" THEN "throws"
  ELSE "returns"

\* HttpService.postSafe(): what its promise resolves to.
httpPostSafe(outcome) ==
  IF httpPost(outcome) = "returns" THEN TRUE ELSE FALSE

\* handleEvent() resumes after await getContainer() for task k.  The lookup
\* answers, rejects, or answers with a record that lacks a property the
\* enrichment reads (a TypeError inside the try block); the attributes are
\* replaced as a whole or not at all.  Then postSafe is called.
afterInspect_Drops(w, k, outcome) ==
  IF outcome = "ok"
    THEN postSafe([w EXCEPT !.tasks[k].attributes = "enriched",
                            !.tasks[k].lookup = outcome], k)
    ELSE [w EXCEPT !.tasks[k].pc = "done", !.tasks[k].lookup = outcome]

afterInspect_CancelledByStop(w, k, outcome) ==
  IF w.state = "stopped"
    THEN [w EXCEPT !.tasks[k].pc = "done", !.tasks[k].lookup = outcome]
  ELSE IF outcome = "ok"
    THEN postSafe([w EXCEPT !.tasks[k].attributes = "enriched",
                            !.tasks[k].lookup = outcome], k)
    ELSE postSafe(
           [w EXCEPT !.tasks[k].lookup = outcome,
                     !.log = Append(@,
              Entry("error", "Failed to enrich event with container details",
                    <<>>, "", w.tasks[k].event.ID))], k)

afterInspect(w, k, outcome) ==
  IF outcome = "ok"
    THEN postSafe([w EXCEPT !.tasks[k].attributes = "enriched",
                            !.tasks[k].lookup = outcome], k)
    ELSE postSafe(
           [w EXCEPT !.tasks[k].lookup = outcome,
                     !.log = Append(@,
              Entry("error", "Failed to enrich event with container details",
                    <<>>, "", w.tasks[k].event.ID))], k)

\* handleEvent() resumes after await postSafe() for task k: postSafe answers
\* true when post() returned and false when it threw.
afterPost_Retries(w, k, outcome) ==
  IF outcome = "ok"
    THEN [w EXCEPT !.tasks[k].pc = "done", !.tasks[k].success = "true"]
    ELSE postSafe(w, k)

afterPost(w, k, outcome) ==
  IF httpPostSafe(outcome)
    THEN [w EXCEPT !.tasks[k].pc = "done", !.tasks[k].success = "true"]
    ELSE [w EXCEPT !.tasks[k].pc = "done", !.tasks[k].success = "false",
                   !.log = Append(@, Entry("warn", "Failed to forward event",
                                           <<>>, w.tasks[k].event.Action,
                                           w.tasks[k].event.ID))]

\* The overflow check of handleChunk().
truncate_Never(w) == w

truncate(w) ==
  IF Len(w.buffer) > maxBufferSize
    THEN [w EXCEPT !.log = Append(@, Entry("warn",
                                           "Buffer size exceeded, truncating",
                                           <<>>, "", "")),
                   !.buffer = sliceLast(@, maxBufferSize \div 2)]
    ELSE w

\* What handleChunk() does with a line that JSON.parse rejects.
parseFailed_FullLine(w, line) ==
  [w EXCEPT !.log = Append(@, Entry("error", "Failed to parse Docker event",
                                    line, "", ""))]

parseFailed(w, line) ==
  [w EXCEPT !.log = Append(@, Entry("error", "Failed to parse Docker event",
                                    substring(line, excerptLen), "", ""))]

RECURSIVE extractLines(_)

extractLines_LastFirst(w) ==
  LET index == indexOf(w.buffer, LF)
  IN IF index = 0 THEN w
     ELSE LET line == trim(SubSeq(w.buffer, 1, index - 1))
              rest == extractLines([w EXCEPT !.buffer = SubSeq(@, index + 1, Len(@))])
              w2 == [rest EXCEPT !.decoded = Append(@, line)]
          IN IF line = <<>> THEN rest
             ELSE IF parses(line)
               THEN handleEvent(w2, Event(line[1]))
               ELSE parseFailed(w2, line)

extractLines_OneLine(w) ==
  LET index == indexOf(w.buffer, LF)
  IN IF index = 0 THEN w
     ELSE LET line == trim(SubSeq(w.buffer, 1, index - 1))
              w1 == [w EXCEPT !.buffer = SubSeq(@, index + 1, Len(@))]
              w2 == [w1 EXCEPT !.decoded = Append(@, line)]
          IN IF line = <<>> THEN w1
             ELSE IF parses(line)
               THEN handleEvent(w2, Event(line[1]))
               ELSE parseFailed(w2, line)

extractLines_DecodesBlank(w) ==
  LET index == indexOf(w.buffer, LF)
  IN IF index = 0 THEN w
     ELSE LET line == trim(SubSeq(w.buffer, 1, index - 1))
              w1 == [w EXCEPT !.buffer = SubSeq(@, index + 1, Len(@))]
              w2 == [w1 EXCEPT !.decoded = Append(@, line)]
          IN IF parses(line)
               THEN extractLines(handleEvent(w2, Event(line[1])))
               ELSE extractLines(parseFailed(w2, line))

\* The while loop of handleChunk().
extractLines(w) ==
  LET index == indexOf(w.buffer, LF)
  IN IF index = 0 THEN w
     ELSE LET line == trim(SubSeq(w.buffer, 1, index - 1))
              w1 == [w EXCEPT !.buffer = SubSeq(@, index + 1, Len(@))]
              w2 == [w1 EXCEPT !.decoded = Append(@, line)]
          IN IF line = <<>> THEN extractLines(w1)
             ELSE IF parses(line)
               THEN extractLines(handleEvent(w2, Event(line[1])))
               ELSE extractLines(parseFailed(w2, line))

\* handleChunk()
handleChunk(w, chunk) ==
  extractLines(truncate([w EXCEPT !.buffer = @ \o toString(chunk)]))

\* The 'data' callback of stdout, and the microtasks it leaves behind.
onData(w, chunk) == runMicrotasks(handleChunk(w, chunk))


\* ------------------------------------------------ the supervisor's actions

NoRace == [old |-> 0, calls |-> 0, failures |-> 0]
NoProbe == [fn |-> "none", done |-> TRUE]

\* spawn() is attempted by start() only outside running/starting.
Spawns(w) == w.state \notin {"running", "starting"}

\* kill() reaches a live process from stop() only then.
Signals(w) ==
  /\ w.state \notin {"stopped", "stopping"}
  /\ w.spawnedProcess # 0
  /\ w.procs[w.spawnedProcess].alive

\* What a run may contain: API calls weigh two, failures one.
Budget == MaxFailures + 2
Cost == 2 * calls + failures
CallAllowed == calls < MaxCalls /\ Cost + 2 <= Budget
FailureAllowed == Cost + 1 <= Budget

SpawnAllowed(w, outcome) ==
  outcome # "ok" => (Spawns(w) /\ FailureAllowed)

KillAllowed(reaches, outcome) ==
  outcome # "ok" => (reaches /\ FailureAllowed)

\* The watcher after construction, nothing having happened yet.
Constructed ==
  /\ state = "stopped"
  /\ spawnedProcess = 0
  /\ retryCount = 0
  /\ buffer = <<>>
  /\ procs = <<>>
  /\ timers = <<>>
  /\ scheduled = 0
  /\ log = <<>>
  /\ tasks = <<>>
  /\ sent = <<>>
  /\ unhandled = 0
  /\ host = 0
  /\ decoded = <<>>
  /\ stream = <<>>
  /\ text = <<>>
  /\ calls = 0
  /\ failures = 0
  /\ lastStop = 0
  /\ raced = NoRace
  /\ afterShutdown = [on |-> FALSE, procs |-> 0]

Init ==
  /\ Constructed
  /\ probe = NoProbe

\* A caller invokes start().
CallStart ==
  /\ CallAllowed
  /\ \E outcome \in SpawnOutcomes :
       /\ SpawnAllowed(Cur, outcome)
       /\ Set(start(Cur, outcome, 0))
       /\ failures' = failures + (IF outcome # "ok" THEN 1 ELSE 0)
       /\ raced' = IF /\ lastStop # 0
                      /\ procs[lastStop].alive
                      /\ outcome = "ok"
                    THEN [old |-> lastStop, calls |-> calls + 1,
                          failures |-> failures]
                    ELSE NoRace
  /\ calls' = calls + 1
  /\ UNCHANGED <<stream, text>>
  /\ lastStop' = 0
  /\ afterShutdown' = [on |-> FALSE, procs |-> 0]

\* A caller invokes stop().
CallStop ==
  /\ CallAllowed
  /\ \E outcome \in KillOutcomes :
       /\ KillAllowed(Signals(Cur), outcome)
       /\ Set(stop(Cur, outcome))
       /\ failures' = failures + (IF outcome # "ok" THEN 1 ELSE 0)
  /\ calls' = calls + 1
  /\ UNCHANGED <<stream, text>>
  /\ lastStop' = IF state = "running" /\ Signals(Cur) /\ procs'[spawnedProcess].sigterm = 1
                  THEN spawnedProcess ELSE 0
  /\ raced' = NoRace
  /\ afterShutdown' = [on |-> FALSE, procs |-> 0]

\* A caller invokes restart().
CallRestart ==
  /\ CallAllowed
  /\ \E outcome \in KillOutcomes :
       /\ KillAllowed(Signals(Cur), outcome)
       /\ Set(restart(Cur, outcome))
       /\ failures' = failures + (IF outcome # "ok" THEN 1 ELSE 0)
  /\ calls' = calls + 1
  /\ UNCHANGED <<stream, text>>
  /\ lastStop' = 0
  /\ raced' = NoRace
  /\ afterShutdown' = [on |-> FALSE, procs |-> 0]

\* A caller invokes shutdown().
CallShutdown ==
  /\ CallAllowed
  /\ \E outcome \in KillOutcomes :
       /\ KillAllowed(Signals(Cur), outcome)
       /\ Set(shutdown(Cur, outcome))
       /\ failures' = failures + (IF outcome # "ok" THEN 1 ELSE 0)
  /\ calls' = calls + 1
  /\ UNCHANGED <<stream, text>>
  /\ lastStop' = 0
  /\ raced' = NoRace
  /\ afterShutdown' = [on |-> TRUE, procs |-> Len(procs)]

\* Timer i may fire: no timer before it has an equal or shorter delay.
CanFire(i) ==
  \A j \in 1..(i - 1) : timers[j].delay > timers[i].delay

Remove(seq, i) == SubSeq(seq, 1, i - 1) \o SubSeq(seq, i + 1, Len(seq))

\* The timer armed by scheduleRestart() or by restart() fires: start().
StartTimerFires ==
  \E i \in 1..Len(timers) :
    /\ CanFire(i)
    /\ timers[i].kind \in {"restart", "start"}
    /\ LET w == [Cur EXCEPT !.timers = Remove(@, i)]
       IN \E outcome \in SpawnOutcomes :
            /\ SpawnAllowed(w, outcome)
            /\ Set(start(w, outcome, timers[i].n))
            /\ failures' = failures + (IF outcome # "ok" THEN 1 ELSE 0)
    /\ lastStop' = 0
    /\ UNCHANGED <<stream, text, calls, raced, afterShutdown>>

\* The timer armed by stop() fires.
ForceKillTimerFires ==
  \E i \in 1..Len(timers) :
    /\ CanFire(i)
    /\ timers[i].kind = "forceKill"
    /\ LET old == timers[i].of
           w == [Cur EXCEPT !.timers = Remove(@, i),
                            !.procs[old].graceExpired =
                               @ \/ (procs[old].alive /\ procs[old].sigterm > 0)]
           reaches == w.spawnedProcess # 0 /\ w.procs[w.spawnedProcess].alive
       IN \E outcome \in KillOutcomes :
            /\ KillAllowed(reaches, outcome)
            /\ Set(forceKill(w, outcome))
            /\ failures' = failures + (IF outcome # "ok" THEN 1 ELSE 0)
    /\ lastStop' = 0
    /\ UNCHANGED <<stream, text, calls, raced, afterShutdown>>

\* Subprocess p terminates and Node delivers 'exit'.  A process the watcher
\* never signalled does so spontaneously.
ProcExit ==
  \E p \in 1..Len(procs) :
    /\ procs[p].alive
    /\ LET spontaneous == procs[p].sigterm = 0 /\ procs[p].sigkill = 0
       IN /\ spontaneous => FailureAllowed
          /\ failures' = failures + (IF spontaneous THEN 1 ELSE 0)
    /\ Set(onExit(Cur, p))
    /\ lastStop' = 0
    /\ UNCHANGED <<stream, text, calls, raced, afterShutdown>>

\* Node delivers the 'error' of a subprocess that could not be spawned.
ProcError ==
  \E p \in 1..Len(procs) :
    /\ procs[p].spawnErr
    /\ ~procs[p].errFired
    /\ Set(onError(Cur, p))
    /\ lastStop' = 0
    /\ UNCHANGED <<stream, text, calls, failures, raced, afterShutdown>>

Next ==
  \/ CallStart
  \/ CallStop
  \/ CallRestart
  \/ CallShutdown
  \/ StartTimerFires
  \/ ForceKillTimerFires
  \/ ProcExit
  \/ ProcError

Spec == Init /\ [][Next]_vars

\* ------------------------------------------------ the line parser's actions

Bytes == {LF, CR, "D", "C3", "A9"}

RECURSIVE SeqsOf(_, _)
SeqsOf(S, n) ==
  IF n = 0 THEN {<<>>}
  ELSE LET shorter == SeqsOf(S, n - 1)
       IN shorter \cup {Append(q, c) : q \in {x \in shorter : Len(x) = n - 1}, c \in S}

\* stdout delivers a chunk: the 'data' callback start() attaches.
Data ==
  \E chunk \in SeqsOf(Bytes, MaxChunk) \ {<<>>} :
    /\ Len(stream) + Len(chunk) <= MaxStream
    /\ Set(onData(Cur, chunk))
    /\ stream' = stream \o chunk
    /\ text' = text \o toString(chunk)
    /\ UNCHANGED <<calls, failures, lastStop, raced, afterShutdown>>

NextParser == Data

SpecParser == Init /\ [][NextParser]_vars

\* ------------------------------------------------- the event relay's actions

\* What docker events --format '{{json .}}' writes: one document and a
\* newline per event.  The chunks of n bytes that continue such a stream.
RECURSIVE LineBytes(_, _)
LineBytes(n, atLineStart) ==
  IF n = 0 THEN {<<>>}
  ELSE IF atLineStart
    THEN {<<doc>> \o rest : doc \in Documents, rest \in LineBytes(n - 1, FALSE)}
    ELSE {<<LF>> \o rest : rest \in LineBytes(n - 1, TRUE)}

\* stdout delivers a chunk of a stream of one-document lines.
DataLines ==
  \E n \in 1..MaxChunk :
    \E chunk \in LineBytes(n, stream = <<>> \/ stream[Len(stream)] = LF) :
      /\ Len(stream) + n <= 2 * MaxLines
      /\ Set(onData(Cur, chunk))
      /\ stream' = stream \o chunk
      /\ text' = text \o toString(chunk)
      /\ UNCHANGED <<calls, failures, lastStop, raced, afterShutdown>>

\* The inspector answers the lookup of a pending continuation.
InspectCompletes ==
  \E k \in 1..Len(tasks) : \E outcome \in InspectOutcomes :
    /\ tasks[k].pc = "inspect"
    /\ Set(runMicrotasks(afterInspect(Cur, k, outcome)))
    /\ lastStop' = 0
    /\ UNCHANGED <<stream, text, calls, failures, raced, afterShutdown>>

\* The sink's answer (or the timeout) completes a pending postSafe.
PostCompletes ==
  \E k \in 1..Len(tasks) : \E outcome \in PostOutcomes :
    /\ tasks[k].pc = "post"
    /\ Set(runMicrotasks(afterPost(Cur, k, outcome)))
    /\ lastStop' = 0
    /\ UNCHANGED <<stream, text, calls, failures, raced, afterShutdown>>

NextRelay ==
  \/ DataLines
  \/ InspectCompletes
  \/ PostCompletes

SpecRelay == Init /\ [][NextRelay]_vars

\* ------------------------------------- the supervisor with its subprocesses

\* docker events reports an event of the host: every live subprocess writes
\* one line for it, the event's document and a newline.
hostEvent(w, doc) ==
  [w EXCEPT !.host = @ + 1,
            !.procs = [p \in 1..Len(w.procs) |->
                         IF w.procs[p].alive
                           THEN [w.procs[p] EXCEPT !.written = @ \o <<doc, LF>>]
                           ELSE w.procs[p]]]

\* The next n bytes subprocess p has written, not yet read.
Unread(p, n) == SubSeq(procs[p].written, procs[p].read + 1, procs[p].read + n)

\* A container dies on the host.
HostEvent ==
  /\ host < MaxHostEvents
  /\ Set(hostEvent(Cur, "D"))
  /\ lastStop' = 0
  /\ UNCHANGED <<stream, text, calls, failures, raced, afterShutdown>>

\* A container is created on the host.
HostCreates ==
  /\ host < MaxHostEvents
  /\ Set(hostEvent(Cur, "C"))
  /\ lastStop' = 0
  /\ UNCHANGED <<stream, text, calls, failures, raced, afterShutdown>>

\* The stdout of subprocess p delivers a chunk: the 'data' callback start()
\* attached to it, which stays attached for as long as the pipe has data.
Stdout ==
  \E p \in 1..Len(procs) : \E n \in 1..MaxChunk :
    /\ n <= Len(procs[p].written) - procs[p].read
    /\ Set(onData([Cur EXCEPT !.procs[p].read = @ + n], Unread(p, n)))
    /\ stream' = stream \o Unread(p, n)
    /\ text' = text \o toString(Unread(p, n))
    /\ lastStop' = 0
    /\ UNCHANGED <<calls, failures, raced, afterShutdown>>

\* The supervisor driven through start(), stop() and shutdown().
NextWired ==
  \/ CallStart
  \/ CallStop
  \/ CallShutdown
  \/ StartTimerFires
  \/ ForceKillTimerFires
  \/ ProcExit
  \/ ProcError
  \/ HostEvent
  \/ Stdout

SpecWired == Init /\ [][NextWired]_vars

\* The supervisor, its subprocess and the relay from start() to the end of
\* the grace period of a stop(): the watcher is started once, spawn() and
\* kill() succeed, the subprocess is alive throughout (what follows its exit
\* is the subject of Spec); the inspector and the sink answer, or fail, at
\* any time.
NextPlanned ==
  \/ CallStart /\ calls = 0 /\ failures' = failures
  \/ CallStop /\ failures' = failures
  \/ ForceKillTimerFires /\ failures' = failures
  \/ HostEvent
  \/ HostCreates
  \/ Stdout
  \/ InspectCompletes
  \/ PostCompletes

SpecPlanned == Init /\ [][NextPlanned]_vars

\* ------------------------------------- enrichment and the sink on their own

\* Image references: the strings of up to MaxRef characters, letters, colons
\* and slashes.
Refs == SeqsOf({"a", ":", "/"}, MaxRef)

\* Entries of Config.Env: a key, with or without "=" and a value.  Keys are
\* the three names, another name, and a name that only begins with one of the
\* three; values may be empty and may hold "=".
EnvKeys ==
  {<<"CORE_APP_ID">>, <<"CORE_ENV_ID">>, <<"CORE_DEPLOYMENT_ID">>,
   <<"x">>, <<"CORE_APP_ID", "x">>}
EnvValues == {<<>>, <<"x">>, <<"x", "=", "y">>}
EnvEntries ==
  {k \o v : k \in EnvKeys, v \in EnvValues}
    \cup {k \o <<"=">> \o v : k \in EnvKeys, v \in EnvValues}

\* Answers of the inspector: any reference with an empty environment, any
\* environment of up to MaxEnv entries, and a Config without Env.
Inspects ==
  {[has |-> {"Env"}, Image |-> ref, Env |-> <<>>] : ref \in Refs}
    \cup {[has |-> {"Env"}, Image |-> <<"a">>, Env |-> env] :
            env \in SeqsOf(EnvEntries, MaxEnv)}
    \cup {[has |-> {}, Image |-> <<"a">>, Env |-> <<>>]}

\* ------------------------------------------------ the HTTP handlers' errors

\* Messages are texts over letters in both cases and a character that is no
\* letter; NotFound stands for the phrase "not found", two letters long.
MessageChars == {"n", "N", "f", "F", "x"}
NotFound == <<"n", "f">>
Messages == SeqsOf(MessageChars, MaxMessage)
Resources == {"Container", "Image", "Network"}

\* String.prototype.toLowerCase()
toLowerCase(s) ==
  [i \in 1..Len(s) |->
     CASE s[i] = "N" -> "n"
       [] s[i] = "F" -> "f"
       [] OTHER -> s[i]]

\* String.prototype.includes()
includes(s, sub) ==
  \E i \in 0..(Len(s) - Len(sub)) : SubSeq(s, i + 1, i + Len(sub)) = sub

\* handleError() of utils/error.ts, called with an Error whose message is a
\* string: the response it returns.
handleError(message) ==
  [status |-> IF includes(toLowerCase(message), NotFound) THEN 404 ELSE 500,
   body |-> [error |-> message],
   returned |-> TRUE]

\* handleError() of createContainerHandlers, the container controller's own.
containerHandleError(message) ==
  [status |-> IF includes(message, NotFound) THEN 404 ELSE 500,
   body |-> [error |-> message],
   returned |-> TRUE]

\* A handler of the resource's controller whose runtime call rejects with
\* Error(message): the catch block of the handler answers.
handlerFails(resource, message) ==
  IF resource = "Container"
    THEN containerHandleError(message)
    ELSE handleError(message)

InitFunctions ==
  /\ Constructed
  /\ \/ \E inspect \in Inspects :
          probe = [fn |-> "enrich", arg |-> inspect, done |-> FALSE,
                   result |-> "none"]
     \/ \E outcome \in PostOutcomes :
          probe = [fn |-> "postSafe", arg |-> outcome, done |-> FALSE,
                   result |-> "none"]
     \/ \E resource \in Resources : \E message \in Messages :
          probe = [fn |-> "handler",
                   arg |-> [resource |-> resource, message |-> message],
                   done |-> FALSE, result |-> "none"]

\* handleEvent() builds the attributes from the inspector's answer.
Enrich ==
  /\ probe.fn = "enrich"
  /\ ~probe.done
  /\ probe' = [probe EXCEPT !.done = TRUE, !.result = enrich(probe.arg)]
  /\ UNCHANGED <<state, spawnedProcess, retryCount, buffer, procs, timers,
                 scheduled, log, tasks, sent, unhandled, host, decoded,
                 stream, text, calls, failures, lastStop, raced, afterShutdown>>

\* The promise of a postSafe() call is settled.
PostSafe ==
  /\ probe.fn = "postSafe"
  /\ ~probe.done
  /\ probe' = [probe EXCEPT !.done = TRUE, !.result = httpPostSafe(probe.arg)]
  /\ UNCHANGED <<state, spawnedProcess, retryCount, buffer, procs, timers,
                 scheduled, log, tasks, sent, unhandled, host, decoded,
                 stream, text, calls, failures, lastStop, raced, afterShutdown>>

\* A request reaches a handler, and the handler's runtime call fails.
HandlerFails ==
  /\ probe.fn = "handler"
  /\ ~probe.done
  /\ probe' = [probe EXCEPT !.done = TRUE,
                            !.result = handlerFails(probe.arg.resource,
                                                    probe.arg.message)]
  /\ UNCHANGED <<state, spawnedProcess, retryCount, buffer, procs, timers,
                 scheduled, log, tasks, sent, unhandled, host, decoded,
                 stream, text, calls, failures, lastStop, raced, afterShutdown>>

NextFunctions ==
  \/ Enrich
  \/ PostSafe
  \/ HandlerFails

SpecFunctions == InitFunctions /\ [][NextFunctions]_vars

\* Recovery without a caller stopping the watcher: start() is the only API
\* call.  Armed timers fire (the event loop runs them), and the failure budget
\* makes a spawn succeed eventually.
NextRecover ==
  \/ CallStart
  \/ StartTimerFires
  \/ ProcExit
  \/ ProcError

SpecRecover == Init /\ [][NextRecover]_vars /\ WF_vars(StartTimerFires)

TypeOK ==
  /\ state \in {"stopped", "starting", "running", "stopping"}
  /\ spawnedProcess \in 0..Len(procs)
  /\ retryCount \in Nat

\* ------------------------------------------------------------------ claims

Alive == {p \in 1..Len(procs) : procs[p].alive}
RestartTimers == {i \in 1..Len(timers) : timers[i].kind = "restart"}

\* C1: stop() while Running, directly followed by start() while the old
\* subprocess has not exited: once the old subprocess has exited and every
\* timer has fired (no further API call, no failure, no signalled subprocess
\* still about to exit), exactly one subprocess is alive, it is the tracked
\* one, and the state is Running.
C1_OneSubprocessAfterStopStart ==
  ( /\ raced.old # 0
    /\ calls = raced.calls
    /\ failures = raced.failures
    /\ procs[raced.old].exitFired
    /\ \A p \in Alive : procs[p].sigterm = 0 /\ procs[p].sigkill = 0
    /\ timers = <<>> )
  => ( /\ Cardinality(Alive) = 1
       /\ spawnedProcess \in Alive
       /\ state = "running" )

\* C2: when the grace timer of a stop() fires while the subprocess that stop()
\* sent SIGTERM to is still alive, that subprocess is sent SIGKILL.
C2_GraceExpirySendsSigkill ==
  \A p \in 1..Len(procs) : procs[p].graceExpired => procs[p].sigkill >= 1

\* C3: the exit of a subprocess that stop()/shutdown() terminated schedules no
\* restart, and after shutdown() with no later API call no subprocess is
\* spawned and the state stays Stopped.
C3_PlannedStopSchedulesNoRestart ==
  /\ \A p \in 1..Len(procs) :
       (procs[p].sigterm > 0 /\ procs[p].exitFired) => procs[p].restarts = 0
  /\ afterShutdown.on =>
       (state = "stopped" /\ Len(procs) = afterShutdown.procs)

\* C4: the restart scheduled at the 4th consecutive unplanned exit (each exit
\* that of the subprocess the previous restart spawned) has delay 40000 ms.
C4_FourthRestartDelay ==
  \A i \in RestartTimers : timers[i].n = 4 => timers[i].delay = 40000

\* C5: every call of scheduleRestart arms exactly one timer, with delay
\* min(5000 * 2^r, 60000) for r the retryCount before the call, and adds one
\* to retryCount; the delay is one of 5000, 10000, 20000, 40000, 60000.
C5_Step ==
  scheduled' # scheduled =>
    /\ scheduled' = scheduled + 1
    /\ retryCount' = retryCount + 1
    /\ \E i \in 1..Len(timers') :
         /\ timers'[i].kind = "restart"
         /\ timers'[i].id = scheduled'
         /\ \A j \in 1..Len(timers') :
              (timers'[j].kind = "restart" /\ timers'[j].id > scheduled) => j = i
         /\ timers'[i].delay =
              (IF 5000 * (2 ^ retryCount) < 60000
                 THEN 5000 * (2 ^ retryCount) ELSE 60000)
         /\ timers'[i].delay \in {5000, 10000, 20000, 40000, 60000}

C5_ScheduleRestartBackoff == [][C5_Step]_vars

\* C5's case: the ceiling applies (a restart armed with retryCount = 4, where
\* 5000 * 2^4 exceeds 60000).
C5_Witness ==
  \E i \in RestartTimers : timers[i].r = 4 /\ timers[i].delay = 60000

\* C6: retryCount is 0 after every start() that spawns, and each subprocess
\* advances it (and arms a restart timer) at most once, also when both its
\* 'error' and its 'exit' callback fire.
C6_OneRestartPerSubprocess ==
  \A p \in 1..Len(procs) : procs[p].restarts <= 1

\* C7: with no stop() called, the watcher is never Stopped without a restart
\* timer pending, and whenever it is Stopped after an unplanned stop it is
\* eventually Running again with a newly spawned subprocess.
C7_Stopped == calls > 0 /\ state = "stopped"

C7_AutomaticRecovery ==
  /\ [](C7_Stopped => RestartTimers # {})
  /\ \A n \in 0..(MaxCalls + 2 * MaxFailures + 2) :
       (C7_Stopped /\ Len(procs) = n)
          ~> (state = "running" /\ Len(procs) > n)

\* C7's case: the watcher is Running again after an unplanned exit, after an
\* asynchronous spawn error and after spawn() throwing.
C7_Witness ==
  /\ state = "running"
  /\ spawnedProcess \in Alive
  /\ \E p \in 1..Len(procs) : procs[p].exitFired
  /\ \E p \in 1..Len(procs) : procs[p].errFired
  /\ scheduled >= 3

\* The stream is well-formed UTF-8: every lead byte is followed by its
\* continuation byte and every continuation byte follows a lead byte.
ValidUtf8(bytes) ==
  \A i \in 1..Len(bytes) :
    /\ bytes[i] = "C3" => (i < Len(bytes) /\ bytes[i + 1] = "A9")
    /\ bytes[i] = "A9" => (i > 1 /\ bytes[i - 1] = "C3")

\* The complete (newline-terminated) lines of str, in order.
Newlines(str) == {i \in 1..Len(str) : str[i] = LF}

LineEndingAt(str, e) ==
  LET before == {i \in Newlines(str) : i < e}
      from == IF before = {} THEN 1
              ELSE 1 + CHOOSE i \in before : \A j \in before : j <= i
  IN SubSeq(str, from, e - 1)

CompleteLines(str) ==
  [k \in 1..Cardinality(Newlines(str)) |->
     LineEndingAt(str, CHOOSE e \in Newlines(str) :
                         Cardinality({i \in Newlines(str) : i <= e}) = k)]

\* What follows the last newline of str.
Remainder(str) ==
  IF Newlines(str) = {} THEN str
  ELSE SubSeq(str, 1 + CHOOSE i \in Newlines(str) : \A j \in Newlines(str) : j <= i,
              Len(str))

Trimmed(lines) == [k \in 1..Len(lines) |-> trim(lines[k])]
IsNonEmpty(line) == line # <<>>
IsDocument(line) == line = <<"D">>
IsNotDocument(line) == line # <<"D">>
IsWarning(entry) == entry.level = "warn"
IsError(entry) == entry.level = "error"

\* The non-empty trimmed lines the buffer has received so far.
LinesReceived == SelectSeq(Trimmed(CompleteLines(text)), IsNonEmpty)

\* C8: for a stream of newline-terminated lines (well-formed UTF-8, short
\* enough never to reach the buffer ceiling), however it is cut into chunks,
\* the lines handed to the decoder are the stream's lines, trimmed, in order.
C8_LinesIndependentOfChunking ==
  ( /\ stream # <<>>
    /\ stream[Len(stream)] = LF
    /\ ValidUtf8(stream)
    /\ Len(stream) <= maxBufferSize )
  => decoded = SelectSeq(Trimmed(CompleteLines(toString(stream))), IsNonEmpty)

\* C9: after every handleChunk call the buffer is no longer than the ceiling;
\* when appending the chunk made it longer, one warning is logged and the
\* buffer is what its last ceiling/2 characters leave after line extraction
\* (at most ceiling/2 characters); otherwise no warning is logged.
C9_Step ==
  stream' # stream =>
    LET full == buffer \o SubSeq(text', Len(text) + 1, Len(text'))
        half == maxBufferSize \div 2
        warnings == Len(SelectSeq(log, IsWarning))
        warningsAfter == Len(SelectSeq(log', IsWarning))
    IN /\ Len(buffer') <= maxBufferSize
       /\ IF Len(full) > maxBufferSize
            THEN /\ warningsAfter = warnings + 1
                 /\ buffer' = Remainder(SubSeq(full, Len(full) - half + 1, Len(full)))
                 /\ 2 * Len(buffer') <= maxBufferSize
            ELSE /\ warningsAfter = warnings
                 /\ buffer' = Remainder(full)

C9_BufferBound == [][C9_Step]_vars

\* C9's case: a chunk pushed the buffer over the ceiling and the kept half is
\* still buffered.
C9_Witness ==
  /\ Len(SelectSeq(log, IsWarning)) = 1
  /\ Len(buffer) = maxBufferSize \div 2

\* C10: as long as nothing was truncated, every received line that is not a
\* document logs one error with the line's first excerptLen characters and
\* starts no event and no send, and every line that is a forwardable document
\* starts one event and one send, whatever lines precede it.
C10_DecodeFailureIsolated ==
  Len(SelectSeq(log, IsWarning)) = 0 =>
    LET bad == SelectSeq(LinesReceived, IsNotDocument)
        good == SelectSeq(LinesReceived, IsDocument)
        errors == SelectSeq(log, IsError)
    IN /\ Len(errors) = Len(bad)
       /\ \A k \in 1..Len(bad) :
            /\ errors[k].raw = SubSeq(bad[k], 1, Min(excerptLen, Len(bad[k])))
            /\ Len(errors[k].raw) <= excerptLen
       /\ Len(tasks) = Len(good)
       /\ Len(sent) = Len(good)

\* C10's case: a bad line longer than the excerpt, then a good line.
C10_Witness ==
  /\ LinesReceived = << <<"D", "D">>, <<"D">> >>
  /\ Len(log) = 1
  /\ log[1].level = "error"
  /\ log[1].raw = <<"D">>
  /\ Len(sent) = 1
  /\ buffer = <<>>

\* ----------------------------------------------------- claims on the relay

\* An event record: an object with Type, Action and Actor.
IsEventRecord(event) ==
  event.json = "object" /\ event.has = {"Type", "Action", "Actor"}

\* The filter policy in words: container events other than stop and kill.
Forwardable(event) ==
  event.Type = "container" /\ event.Action # "stop" /\ event.Action # "kill"

Tasks == 1..Len(tasks)
SendsOf(k) == {i \in 1..Len(sent) : sent[i].task = k}

\* C11: whatever a line contains (also a document that is no event record:
\* null, a scalar, an object without Type or without Actor), no promise
\* rejection stays unhandled: the failure is logged by the catch callback,
\* and the continuation of every line is left finished or awaiting.
C11_NoLineIsFatal ==
  /\ unhandled = 0
  /\ \A k \in Tasks : tasks[k].pc \in {"inspect", "post", "done", "caught"}

\* C12: an event record is handed to the sink if and only if its kind is
\* container and its action is neither stop nor kill (a create event once its
\* lookup has finished); every other event record causes no send and no
\* inspector call, and every payload handed over belongs to a forwardable
\* event.
C12_FilterPolicy ==
  /\ \A k \in Tasks :
       IsEventRecord(tasks[k].event) =>
         IF Forwardable(tasks[k].event)
           THEN \/ Cardinality(SendsOf(k)) = 1
                \/ /\ SendsOf(k) = {}
                   /\ tasks[k].pc = "inspect"
                   /\ tasks[k].event.Action = "create"
           ELSE /\ SendsOf(k) = {}
                /\ tasks[k].lookup = "none"
                /\ tasks[k].pc = "done"
  /\ \A i \in 1..Len(sent) :
       /\ sent[i].type = "container"
       /\ sent[i].event \notin {"stop", "kill"}
       /\ sent[i].task \in Tasks

\* C12's case: a container stop event with no send and a container create
\* event with one.
C12_Witness ==
  /\ \E k \in Tasks : /\ tasks[k].event.Action = "stop"
                        /\ tasks[k].event.Type = "container"
                        /\ tasks[k].pc = "done"
                        /\ SendsOf(k) = {}
  /\ \E k \in Tasks : /\ tasks[k].event.Action = "create"
                        /\ tasks[k].event.Type = "container"
                        /\ Cardinality(SendsOf(k)) = 1

\* C13: a container create event whose lookup rejected, or whose enriched
\* attributes could not be built, is handed to the sink exactly once, with
\* the raw actor attributes; the attributes of a payload are the raw ones or
\* the enriched ones, never a mixture.
C13_EnrichmentFailureForwardsRaw ==
  /\ \A k \in Tasks :
       tasks[k].lookup \in {"rejects", "incomplete"} =>
         /\ Cardinality(SendsOf(k)) = 1
         /\ \A i \in SendsOf(k) :
              /\ sent[i].attributes = tasks[k].event.Attributes
              /\ sent[i].attributes = "raw"
              /\ sent[i].event = "create"
  /\ \A i \in 1..Len(sent) : sent[i].attributes \in {"raw", "enriched"}

\* C13's case: one create event whose lookup rejected and one whose answer
\* was incomplete, both handed over.
C13_Witness ==
  /\ \E k \in Tasks : tasks[k].lookup = "rejects" /\ SendsOf(k) # {}
  /\ \E k \in Tasks : tasks[k].lookup = "incomplete" /\ SendsOf(k) # {}

\* C14: a handleChunk call extracts and decodes every complete line and
\* returns while every lookup and every send it started is still pending; it
\* completes no continuation that was pending before it either.
C14_Step ==
  stream' # stream =>
    /\ indexOf(buffer', LF) = 0
    /\ Len(tasks') - Len(tasks) = Len(decoded') - Len(decoded)
    /\ \A k \in 1..Len(tasks) : tasks'[k] = tasks[k]
    /\ \A k \in (Len(tasks) + 1)..Len(tasks') :
         /\ tasks'[k].success = "none"
         /\ tasks'[k].lookup \in {"none", "pending"}
         /\ tasks'[k].attributes = tasks'[k].event.Attributes
         /\ (IsEventRecord(tasks'[k].event) /\ Forwardable(tasks'[k].event))
              => tasks'[k].pc \in {"inspect", "post"}

C14_LineLoopNeverWaits == [][C14_Step]_vars

\* C14's case: two lines decoded, the lookup of the first and the send of the
\* second both still pending, nothing left in the buffer.
C14_Witness ==
  /\ Len(tasks) = 2
  /\ tasks[1].pc = "inspect"
  /\ tasks[2].pc = "post"
  /\ buffer = <<>>

IsForwardFailure(entry) ==
  entry.level = "warn" /\ entry.message = "Failed to forward event"

Failed == {k \in Tasks : tasks[k].success = "false"}

\* C15: a line causes at most one send attempt; when the sink reports
\* failure the continuation ends (nothing is rejected, nothing retried) and
\* one warning with the event's action and id is logged per failed event.
C15_RelayFailureAbsorbed ==
  /\ \A k \in Tasks : tasks[k].sends <= 1 /\ Cardinality(SendsOf(k)) <= 1
  /\ \A k \in Failed :
       /\ tasks[k].pc = "done"
       /\ tasks[k].sends = 1
       /\ \E i \in 1..Len(log) :
            /\ IsForwardFailure(log[i])
            /\ log[i].action = tasks[k].event.Action
            /\ log[i].id = tasks[k].event.ID
  /\ Len(SelectSeq(log, IsForwardFailure)) = Cardinality(Failed)
  /\ (\A k \in Tasks : IsEventRecord(tasks[k].event)) => unhandled = 0

\* C15's case: the sink failed for an enriched create event and for another
\* event.
C15_Witness ==
  /\ Cardinality(Failed) = 2
  /\ \E k \in Failed : tasks[k].lookup = "ok"
  /\ Len(SelectSeq(log, IsForwardFailure)) = 2

RECURSIVE IsSubseq(_, _)
IsSubseq(a, b) ==
  IF a = <<>> THEN TRUE
  ELSE IF b = <<>> THEN FALSE
  ELSE IF a[1] = b[1] THEN IsSubseq(Tail(a), Tail(b))
  ELSE IsSubseq(a, Tail(b))

ParsesLine(line) == parses(line)

\* C17: the lines handed to the decoder are lines of the stream in the
\* stream's order (all of them when nothing was truncated), and the event
\* continuations were started in the order of the lines that decoded.
C17_ArrivalOrder ==
  /\ IsSubseq(decoded, LinesReceived)
  /\ Len(SelectSeq(log, IsWarning)) = 0 => decoded = LinesReceived
  /\ LET parsed == SelectSeq(decoded, ParsesLine)
     IN /\ Len(tasks) = Len(parsed)
        /\ \A k \in Tasks : tasks[k].event = Event(parsed[k][1])

\* C17's case: two different lines, decoded in the order they arrived in.
C17_Witness ==
  /\ stream = <<"C", LF, "D", LF>>
  /\ decoded = << <<"C">>, <<"D">> >>
  /\ Len(tasks) = 2
  /\ tasks[1].event.Action = "create"
  /\ tasks[2].event.Action = "die"

\* C18: payloads can be handed to the sink out of arrival order: a payload
\* overtakes an earlier line's only when the earlier line is a container
\* create event, which waits for its lookup.
C18_OnlyCreateIsOvertaken ==
  \A i, j \in 1..Len(sent) :
    (i < j /\ sent[i].task > sent[j].task) => sent[j].event = "create"

\* C18's case: line A (a create event) before line B in the stream, B's
\* payload handed to the sink before A's.
C18_Witness ==
  /\ Len(tasks) = 2
  /\ tasks[1].event.Action = "create"
  /\ Len(sent) = 2
  /\ sent[1].task = 2
  /\ sent[2].task = 1

\* ------------------------------------------------- claims on the lifecycle

\* C16: each event of the host is relayed at most once.  Every event is a
\* forwardable one here, so the payloads handed to the sink never outnumber
\* the events of the host - also in a run without any failure in which only
\* subprocesses the watcher never signalled have reported them (no
\* subprocess in its grace period did).
C16_NoDuplication ==
  ( /\ failures = 0
    /\ \A p \in 1..Len(procs) :
         procs[p].written # <<>> => (procs[p].sigterm = 0 /\ procs[p].sigkill = 0) )
  => Len(sent) <= host

\* Timer i called start() in this step: no API call was made, a start or
\* restart timer is gone, and start() armed no timer or scheduled a restart.
StartTimerFired(i) ==
  /\ calls' = calls
  /\ timers[i].kind \in {"restart", "start"}
  /\ \/ timers' = Remove(timers, i)
     \/ /\ scheduled' = scheduled + 1
        /\ Len(timers') = Len(timers)
        /\ SubSeq(timers', 1, Len(timers) - 1) = Remove(timers, i)

\* C19: start() in state Running or Starting, called through the API (the
\* only API call that leaves the state Running) or by a timer, spawns no
\* subprocess, arms no timer and changes neither state, retryCount, buffer
\* nor the tracked subprocess.
C19_Step ==
  LET byTimer == \E i \in 1..Len(timers) : StartTimerFired(i)
      byCall == calls' = calls + 1 /\ state' \in {"running", "starting"}
  IN (state \in {"running", "starting"} /\ (byTimer \/ byCall)) =>
       /\ UNCHANGED <<state, retryCount, buffer, spawnedProcess, procs, scheduled>>
       /\ byCall => timers' = timers
       /\ byTimer => \E i \in 1..Len(timers) : timers' = Remove(timers, i)

C19_StartIsIdempotent == [][C19_Step]_vars

\* C19's case: a restart timer fired while the watcher was Running.  The
\* first subprocess exited unplanned, which armed the only restart timer; an
\* API call of start() spawned the second one (its gen is 0); the timer is
\* gone and has neither spawned a subprocess nor scheduled another restart.
C19_Witness ==
  /\ state = "running"
  /\ Len(procs) = 2
  /\ procs[1].exitFired /\ ~procs[1].errFired
  /\ procs[1].sigterm = 0 /\ procs[1].sigkill = 0
  /\ procs[2].gen = 0 /\ procs[2].alive
  /\ spawnedProcess = 2
  /\ scheduled = 1
  /\ retryCount = 0
  /\ timers = <<>>

\* C20: stop() in state Stopped or Stopping (an API call that neither spawns
\* a subprocess nor schedules a restart is stop(), shutdown() or restart())
\* sends no signal, arms no force-kill timer and changes neither state,
\* buffer, retryCount nor the tracked subprocess.
C20_Step ==
  LET stops == /\ calls' = calls + 1
               /\ scheduled' = scheduled
               /\ Len(procs') = Len(procs)
  IN (state \in {"stopped", "stopping"} /\ stops) =>
       /\ UNCHANGED <<state, retryCount, buffer, spawnedProcess, procs>>
       /\ \/ timers' = timers
          \/ /\ Len(timers') = Len(timers) + 1
             /\ SubSeq(timers', 1, Len(timers)) = timers
             /\ timers'[Len(timers')].kind = "start"

C20_StopIsIdempotent == [][C20_Step]_vars

\* C20's case: shutdown(), and so stop(), was called in state Stopped while a
\* subprocess was still tracked (its spawn had failed): had stop() gone on, it
\* would have cleared the tracked subprocess and armed a timer.
C20_Witness ==
  /\ afterShutdown.on
  /\ afterShutdown.procs = Len(procs)
  /\ state = "stopped"
  /\ spawnedProcess # 0
  /\ \A i \in 1..Len(timers) : timers[i].kind # "forceKill"

\* ------------------------------------------- claims on the parser's buffer

\* The characters handleChunk() appended to the buffer in this step.
Appended == SubSeq(text', Len(text) + 1, Len(text'))

IsSuffixOf(tail, str) ==
  /\ Len(tail) <= Len(str)
  /\ SubSeq(str, Len(str) - Len(tail) + 1, Len(str)) = tail

\* C28: every complete line contained in an incoming chunk is extracted and
\* decoded, also when the chunk pushes the buffer over the ceiling.  The
\* lines that begin after the chunk's first newline lie wholly inside the
\* chunk: trimmed, the non-empty ones are the last lines handed to the
\* decoder by that handleChunk call.
C28_Step ==
  stream' # stream =>
    LET first == indexOf(Appended, LF)
        inside == IF first = 0 THEN <<>>
                  ELSE CompleteLines(SubSeq(Appended, first + 1, Len(Appended)))
    IN IsSuffixOf(SelectSeq(Trimmed(inside), IsNonEmpty), decoded')

C29_BufferIsRemainder ==
  /\ \A i \in 1..Len(buffer) : buffer[i] # LF
  /\ IsSuffixOf(buffer, Remainder(text))
  /\ Len(SelectSeq(log, IsWarning)) = 0 => buffer = Remainder(text)
  /\ (text # <<>> /\ text[Len(text)] = LF) => buffer = <<>>

\* C29's case: two lines were extracted and the text after the last newline
\* is what the buffer holds.
C29_Witness ==
  /\ text = <<"D", LF, "D", LF, "D">>
  /\ Len(decoded) = 2
  /\ buffer = <<"D">>
  /\ log = <<>>

IsBlank(line) == \A i \in 1..Len(line) : line[i] \in Whitespace
IsNotBlank(line) == ~IsBlank(line)

\* C30: a line that is empty or all whitespace is dropped silently.  No
\* empty line is handed to the decoder, and as long as nothing was truncated
\* the decoder is handed one line, and one event or one error log entry is
\* produced, per received line that is not blank: the blank ones add nothing
\* and the others are decoded as if the blank ones were not there.
C30_BlankLinesSilent ==
  /\ \A k \in 1..Len(decoded) : decoded[k] # <<>>
  /\ Len(SelectSeq(log, IsWarning)) = 0 =>
       LET rest == SelectSeq(CompleteLines(text), IsNotBlank)
       IN /\ decoded = Trimmed(rest)
          /\ Len(log) + Len(tasks) = Len(rest)
          /\ Len(sent) <= Len(tasks)

\* C30's case: an empty line and a carriage-return-only line, then a
\* document: only the document was decoded, and nothing was logged.
C30_Witness ==
  /\ text = <<LF, CR, LF, "D", LF>>
  /\ decoded = << <<"D">> >>
  /\ log = <<>>
  /\ Len(tasks) = 1
  /\ Len(sent) = 1

\* ------------------------------------------------------ claims on restart()

IsStartTimer(t) == t.kind = "start"

\* C22: restart() is stop() followed by a start() delayed by restartDelay.
\* Only an API call arms a start timer, always with that delay, and the call
\* leaves the watcher Stopped, the buffer cleared and no subprocess tracked
\* if it was Running.  When a start timer fires in state Stopped and spawn()
\* does not throw, a new subprocess is spawned and tracked and the state is
\* Running; when it fires in state Running only the timer is gone.
C22_Step ==
  LET arms == Len(SelectSeq(timers', IsStartTimer))
                > Len(SelectSeq(timers, IsStartTimer))
      fires == /\ calls' = calls
               /\ \E i \in 1..Len(timers) :
                    timers[i].kind = "start" /\ timers' = Remove(timers, i)
  IN /\ \A i \in 1..Len(timers') :
          timers'[i].kind = "start" => timers'[i].delay = restartDelay
     /\ arms =>
          /\ calls' = calls + 1
          /\ Len(SelectSeq(timers', IsStartTimer))
               = Len(SelectSeq(timers, IsStartTimer)) + 1
          /\ Len(procs') = Len(procs)
          /\ state' = "stopped"
          /\ state = "running" => (buffer' = <<>> /\ spawnedProcess' = 0)
     /\ (fires /\ state = "stopped") =>
          /\ state' = "running"
          /\ Len(procs') = Len(procs) + 1
          /\ spawnedProcess' = Len(procs')
          /\ SubSeq(procs', 1, Len(procs)) = procs
     /\ (fires /\ state = "running") =>
          UNCHANGED <<state, spawnedProcess, retryCount, buffer, procs, scheduled>>

C22_RestartIsStopThenDelayedStart == [][C22_Step]_vars

\* C22's case: start(), then restart() signalled the first subprocess, and
\* the delayed start() - no other call was made and no restart was ever
\* scheduled - spawned the second one, which is tracked.
C22_Witness ==
  /\ calls = 2
  /\ failures = 0
  /\ scheduled = 0
  /\ state = "running"
  /\ Len(procs) = 2
  /\ procs[1].sigterm = 1
  /\ procs[2].alive
  /\ spawnedProcess = 2
  /\ SelectSeq(timers, IsStartTimer) = <<>>

\* --------------------------------------------------- claims on enrichment

IsCreation(event) ==
  event.json = "object" /\ event.Type = "container" /\ event.Action = "create"

\* C25: the inspector is called for an event exactly when it is a container
\* creation, and once (the continuation makes its one call when it starts:
\* the lookup is pending, or has had one outcome).  Every payload carries the
\* action, kind and actor id of its event, and the payload of an event that
\* is no container creation carries the event's own actor attributes.
C25_EnrichmentOnlyOnCreate ==
  /\ \A k \in 1..Len(tasks) :
       /\ IsCreation(tasks[k].event) <=> tasks[k].lookup # "none"
       /\ tasks[k].lookup = "pending" <=> tasks[k].pc = "inspect"
       /\ ~IsCreation(tasks[k].event) => tasks[k].attributes = tasks[k].event.Attributes
  /\ \A i \in 1..Len(sent) :
       LET event == tasks[sent[i].task].event
       IN /\ sent[i].event = event.Action
          /\ sent[i].type = event.Type
          /\ sent[i].id = event.ID
          /\ ~IsCreation(event) => sent[i].attributes = event.Attributes

\* C25's case: a "die" event was sent with its raw attributes and without a
\* lookup, and a creation was looked up and sent enriched.
C25_Witness ==
  /\ Len(tasks) = 2
  /\ tasks[1].event.Action = "die" /\ tasks[1].lookup = "none"
  /\ tasks[2].event.Action = "create" /\ tasks[2].lookup = "ok"
  /\ Len(sent) = 2
  /\ sent[1].attributes = "raw" /\ sent[1].event = "die"
  /\ sent[2].attributes = "enriched" /\ sent[2].event = "create"

\* C23: the reference is split at its last colon unless it has no colon or a
\* slash after its last colon; then the whole reference is the name and the
\* tag is "latest".  An empty tag is "latest" too.
C23_ImageTagSplit ==
  (probe.fn = "enrich" /\ probe.done) =>
    LET ref == probe.arg.Image
        colons == {i \in 1..Len(ref) : ref[i] = ":"}
        last == CHOOSE i \in colons : \A j \in colons : j <= i
        whole == colons = {} \/ \E i \in (last + 1)..Len(ref) : ref[i] = "/"
    IN IF whole
         THEN probe.result.image = ref /\ probe.result.tag = Latest
         ELSE /\ probe.result.image = SubSeq(ref, 1, last - 1)
              /\ probe.result.tag = IF last = Len(ref) THEN Latest
                                    ELSE SubSeq(ref, last + 1, Len(ref))

\* C23, amended: the reference is split at its last colon unless it has no
\* colon or its first slash comes after its last colon (every slash does, and
\* there is one); then the whole reference is the name and the tag is
\* "latest".  An empty tag is "latest" too.
C23_ImageTagSplitAtFirstSlash ==
  (probe.fn = "enrich" /\ probe.done) =>
    LET ref == probe.arg.Image
        colons == {i \in 1..Len(ref) : ref[i] = ":"}
        slashes == {i \in 1..Len(ref) : ref[i] = "/"}
        last == CHOOSE i \in colons : \A j \in colons : j <= i
        whole == colons = {} \/ (slashes # {} /\ \A i \in slashes : i > last)
    IN IF whole
         THEN probe.result.image = ref /\ probe.result.tag = Latest
         ELSE /\ probe.result.image = SubSeq(ref, 1, last - 1)
              /\ probe.result.tag = IF last = Len(ref) THEN Latest
                                    ELSE SubSeq(ref, last + 1, Len(ref))

\* C23's case: a reference with a registry port and a tag ("a:a/a:a", as
\* "localhost:5000/app:2") is split at the tag's colon.
C23_Witness ==
  /\ probe.fn = "enrich" /\ probe.done
  /\ probe.arg.Image = <<"a", ":", "a", "/", "a", ":", "a">>
  /\ probe.result.image = <<"a", ":", "a", "/", "a">>
  /\ probe.result.tag = <<"a">>

\* Entry e has the key name: name is all of e that precedes its first "=".
HasKey(e, name) ==
  \/ e = name
  \/ /\ Len(e) > Len(name)
     /\ SubSeq(e, 1, Len(name)) = name
     /\ e[Len(name) + 1] = "="

\* What the environment env declares for name: the text after the first "="
\* of the entry with that key (the last one, should there be several), null
\* without such an entry.
Declared(env, name) ==
  LET with == {i \in 1..Len(env) : HasKey(env[i], name)}
      e == env[CHOOSE i \in with : \A j \in with : j <= i]
  IN IF with = {} THEN Null
     ELSE SubSeq(e, Len(name) + 2, Len(e))

\* C24: the three identifiers of the enriched attributes are what the
\* container's environment declares for exactly the keys CORE_APP_ID,
\* CORE_ENV_ID and CORE_DEPLOYMENT_ID, and null when it declares nothing for
\* the key or the container has no environment.
C24_IdentifiersFromEnv ==
  (probe.fn = "enrich" /\ probe.done) =>
    LET env == IF "Env" \in probe.arg.has THEN probe.arg.Env ELSE <<>>
    IN /\ probe.result.application_id = Declared(env, <<"CORE_APP_ID">>)
       /\ probe.result.environment_id = Declared(env, <<"CORE_ENV_ID">>)
       /\ probe.result.deployment_id = Declared(env, <<"CORE_DEPLOYMENT_ID">>)
       /\ "Env" \notin probe.arg.has =>
            /\ probe.result.application_id = Null
            /\ probe.result.environment_id = Null
            /\ probe.result.deployment_id = Null

\* C24's case: CORE_APP_ID=x and CORE_ENV_ID=x=y are declared and
\* CORE_DEPLOYMENT_ID is not.
C24_Witness ==
  /\ probe.fn = "enrich" /\ probe.done
  /\ probe.arg.Env = << <<"CORE_APP_ID", "=", "x">>,
                        <<"CORE_ENV_ID", "=", "x", "=", "y">> >>
  /\ probe.result.application_id = <<"x">>
  /\ probe.result.environment_id = <<"x", "=", "y">>
  /\ probe.result.deployment_id = Null

\* C27: whatever the request does, postSafe() resolves to a boolean: true
\* when the sink answered with a success status and a readable body, false
\* otherwise.
C27_PostSafeNeverRaises ==
  (probe.fn = "postSafe" /\ probe.done) =>
    /\ probe.result \in BOOLEAN
    /\ probe.result <=> probe.arg = "ok"

\* C27's case: the sink answered with a success status and a body that is
\* not JSON; postSafe() resolved to false.
C27_Witness ==
  /\ probe.fn = "postSafe" /\ probe.done
  /\ probe.arg = "body"
  /\ probe.result = FALSE

\* ------------------------------------------------- claims on a planned stop

\* C21: a stop() called in state Running (no call finds the watcher
\* Starting) delivers SIGTERM to the tracked subprocess once and to no other,
\* sends no SIGKILL, and leaves the buffer empty, the state Stopped and no
\* subprocess tracked.
C21_Step ==
  (CallStop /\ state = "running") =>
    /\ state' = "stopped"
    /\ buffer' = <<>>
    /\ spawnedProcess # 0
    /\ spawnedProcess' = 0
    /\ Len(procs') = Len(procs)
    /\ \A p \in 1..Len(procs) :
         /\ procs'[p].sigterm = procs[p].sigterm + (IF p = spawnedProcess THEN 1 ELSE 0)
         /\ procs'[p].sigkill = procs[p].sigkill
         /\ procs'[p].alive = procs[p].alive

C21_PlannedStop == [][C21_Step]_vars

\* C21's case: half a line was buffered when stop() was called: the
\* subprocess has been signalled once and is still alive, and the buffer is
\* empty although the text received ends in an unterminated line.
C21_Witness ==
  /\ calls = 2
  /\ state = "stopped"
  /\ Len(procs) = 1
  /\ procs[1].alive
  /\ procs[1].sigterm = 1
  /\ procs[1].sigkill = 0
  /\ spawnedProcess = 0
  /\ text = <<"D">>
  /\ buffer = <<>>

\* C26: stop() cancels nothing that is in flight: it leaves every
\* continuation and every payload as it is; a lookup that completes hands its
\* event to the sink whatever the watcher's state is by then; and a
\* completion, of a lookup or of a send, changes neither the state, the
\* buffer nor retryCount.
C26_Step ==
  /\ CallStop => (tasks' = tasks /\ sent' = sent)
  /\ (InspectCompletes \/ PostCompletes) => UNCHANGED <<state, buffer, retryCount>>
  /\ \A k \in 1..Len(tasks) :
       (tasks[k].pc = "inspect" /\ tasks'[k].pc # "inspect") =>
         /\ Len(sent') = Len(sent) + 1
         /\ sent'[Len(sent')].task = k
         /\ sent'[Len(sent')].during = state
         /\ tasks'[k].sends = 1

C26_StopCancelsNothing == [][C26_Step]_vars

\* C26's case: the event arrived while the watcher was Running, its lookup
\* completed after stop() and it was handed to the sink in state Stopped; the
\* sink answered, and the watcher is still Stopped.
C26_Witness ==
  /\ state = "stopped"
  /\ Len(tasks) = 1
  /\ tasks[1].during = "running"
  /\ tasks[1].lookup = "ok"
  /\ Len(sent) = 1
  /\ sent[1].task = 1
  /\ sent[1].during = "stopped"
  /\ tasks[1].pc = "done"
  /\ tasks[1].success = "true"
  /\ retryCount = 0

\* ------------------------------------------- claims on stale callbacks

\* C31: the force-kill timer of a stop() signals only the subprocess that
\* stop() terminated.  In a run without a failure every subprocess the
\* watcher has sent SIGKILL is one it had sent SIGTERM before: none spawned
\* after the stop() is killed.
C31_ForceKillOnlyTheStopped ==
  failures = 0 =>
    \A p \in 1..Len(procs) : procs[p].sigkill > 0 => procs[p].sigterm > 0

Unsignalled(p) == procs[p].sigterm = 0 /\ procs[p].sigkill = 0

\* C32: between callbacks, in a run without a failure: in state Running the
\* tracked subprocess is set, alive and has not been signalled by the
\* watcher; in state Stopped no subprocess is alive that the watcher has not
\* signalled.
C32_StateMatchesProcess ==
  failures = 0 =>
    /\ state = "running" =>
         /\ spawnedProcess # 0
         /\ procs[spawnedProcess].alive
         /\ Unsignalled(spawnedProcess)
    /\ state = "stopped" =>
         \A p \in 1..Len(procs) : procs[p].alive => ~Unsignalled(p)

\* The subprocesses whose stdout delivered its first chunk in this step.
FirstChunkOf ==
  {p \in 1..Len(procs) : procs[p].read = 0 /\ procs'[p].read > 0}

\* C33: when a subprocess delivers its first chunk, the buffer holds nothing
\* (what it held would be the partial line of an earlier subprocess), so the
\* text that chunk appends is decoded from the start of a line.
C33_Step ==
  FirstChunkOf # {} => buffer = <<>>

C33_IncarnationsNotMixed == [][C33_Step]_vars

\* C34: a chunk the stdout of a subprocess delivers after stop() has sent
\* that subprocess SIGTERM is not processed: the buffer, the continuations and
\* the payloads stay as they are.
C34_Step ==
  \A p \in 1..Len(procs) :
    (procs[p].sigterm > 0 /\ procs'[p].read > procs[p].read) =>
      UNCHANGED <<buffer, tasks, sent>>

C34_StoppedOutputIgnored == [][C34_Step]_vars


\* ------------------------------------------- claims on the order of sends

PlainSend(entry) == ~IsCreation(tasks[entry.task].event)

\* C35: among the forwarded events that need no enrichment, postSafe is
\* called in the order of the source lines: the payloads of such events are
\* handed to the sink with increasing line positions, each as soon as its
\* line is decoded (every such continuation has made its one call).
C35_PlainSendsInLineOrder ==
  LET plain == SelectSeq(sent, PlainSend)
  IN /\ \A i, j \in 1..Len(plain) : i < j => plain[i].task < plain[j].task
     /\ \A k \in Tasks :
          (tasks[k].pc \in {"post", "done"} /\ shouldForward(tasks[k].event)
             /\ ~IsCreation(tasks[k].event))
            => Cardinality({i \in 1..Len(plain) : plain[i].task = k}) = 1

\* C35's case: lines A and B, both die events, A before B in the stream,
\* neither enriched, A's payload handed to the sink before B's.
C35_Witness ==
  /\ Len(tasks) = 2
  /\ tasks[1].event.Action = "die"
  /\ tasks[2].event.Action = "die"
  /\ Len(sent) = 2
  /\ sent[1].task = 1
  /\ sent[2].task = 2


\* ------------------------------------------------ claims on the event sink

\* C36: postSafe answers true exactly when the request was answered with a
\* success status within the timeout, whatever the body of the response
\* (so the watcher's "Failed to forward event" marks only events the control
\* plane did not accept).
C36_PostSafeTrueOnEverySuccessStatus ==
  (probe.fn = "postSafe" /\ probe.done) =>
    (probe.result = TRUE <=> probe.arg \in {"ok", "body"})


\* ------------------------------------------- claims on the HTTP handlers

\* C37: when the runtime call of a container, image or network handler
\* fails, the handler answers (the failure does not leave it) with the body
\* {error: message} and the status 404 if the message contains "not found"
\* in any case of its letters, 500 otherwise.
C37_ErrorMapping ==
  (probe.fn = "handler" /\ probe.done) =>
    /\ probe.result.returned
    /\ probe.result.body = [error |-> probe.arg.message]
    /\ probe.result.status =
         IF \E i \in 1..(Len(probe.arg.message) - 1) :
              /\ probe.arg.message[i] \in {"n", "N"}
              /\ probe.arg.message[i + 1] \in {"f", "F"}
           THEN 404 ELSE 500

====
